---------------------------- MODULE Spec2Model ----------------------------
(***************************************************************************)
(* TaskManager (namespace tskm): Task / TaskQueue::Scheduler / Worker.     *)
(*                                                                         *)
(* Threads of the model:                                                   *)
(*   - one run-loop thread per worker (SyncedWorker::start / runLoop and   *)
(*     the TaskQueue::Scheduler::startScheduledWork call it makes);        *)
(*   - one thread per worker that may call Worker::wait();                 *)
(*   - client threads that call the TaskQueue front-end, Task::create,     *)
(*     Task::operator(), ~Task and Worker::requestState.                   *)
(* Every action is one critical section (or one lock-free step) of the     *)
(* code: a step never spans the acquisition of a second mutex, a           *)
(* condition-variable wait, or the execution of a task body.               *)
(***************************************************************************)
EXTENDS Integers, Sequences, FiniteSets, TLC

\* ------------------------------------------------------------------ bounds
NumWorkers == 2
MaxTasks == 2
MaxRequests == 2

Workers == 1..NumWorkers
Tasks == 1..MaxTasks

\* Worker::State (Worker.hpp:41-45)
State == {"TERMINATE", "WAIT", "WORK"}

\* the three ways an invocation of a callable can end (TaskScheduler.hpp:479-489)
Kinds == {"value", "cancel", "throw"}

VARIABLES
    NDEBUG,         \* the build: TRUE when assert() is compiled out
    aborted,        \* an assert() failed (debug build) or std::terminate ran: the
                    \* process is gone
    \* TaskSchedulerBase / TaskQueue::Scheduler::Impl
    queue,          \* Impl::queue, a sequence of task ids
    queueActive,    \* Impl::queueActive
    working,        \* Impl::working
    completed,      \* TaskSchedulerBase::completed
    \* SyncedWorker
    pc,             \* where each worker's run-loop thread is
    currentState,   \* SyncedWorker::currentState
    requestedState, \* SyncedWorker::requestedState
    task,           \* the local `task` of runNextTask (0: none)
    notifyWait,     \* requestState callers between unlock and notify_all
    nreq,           \* number of requestState calls made so far
    wpc,            \* where the thread calling Worker::wait() is
    \* Task::PackagedTask
    loc,            \* who owns the Task object
    started,        \* PackagedTask::started
    ended,          \* PackagedTask::ended
    outcome,        \* the shared state of PackagedTask::promise
    invoked,        \* number of invocations of the callable
    setCalls,       \* number of promise.set_value calls
    \* history
    admitted,       \* tasks in the order addTask pushed them
    spared,         \* tasks a worker holds that it held while TaskQueue::cancel ran
    raised,         \* how the callable of each task ended ("none": it has not)
    withheld,       \* per worker: tasks admitted while it was started with requestedState
                    \* and currentState WAIT, and no requestState call on it since
    \* DelayedStart, Worker and TaskQueue objects
    dsWorker,       \* DelayedStart::Impl::worker (0: nullptr)
    dsAlive,        \* the DelayedStart object exists
    accepted,       \* workers constructed with the DelayedStart
    starts,         \* number of Worker::start calls per worker
    queueAlive,     \* the TaskQueue front-end exists
    \* a Task used by two client threads at once
    launchPc,       \* where the thread inside Task::operator() of each task is
    cancelPc        \* where the thread inside ~Task of each task is

schedVars == <<queue, queueActive, working, completed>>
workerVars == <<currentState, requestedState, notifyWait, nreq>>
taskVars == <<loc, started, ended, outcome, invoked, setCalls>>
histVars == <<admitted, spared, raised, withheld>>
buildVars == <<NDEBUG, aborted>>
lifeVars == <<dsWorker, dsAlive, accepted, starts, queueAlive>>
raceVars == <<launchPc, cancelPc>>
vars == <<buildVars, raceVars, lifeVars, schedVars, pc, task, workerVars, wpc, taskVars, histVars>>


\* a failed assert() ends the process: no thread takes another step
Running == ~aborted

\* ------------------------------------------------------------ the mutexes
\* A mutex is held across steps only by a run-loop thread, so its owner is
\* read off the thread's position; every other critical section is one step
\* that is enabled only while the mutex is free.

\* a runNextTask that keeps the scheduler mutex while the task runs
SchedMutexOwnerNoUnlock == {w \in Workers : pc[w] \in {"pred", "launch", "running"}}

\* TaskSchedulerBase::mutex is held from startScheduledWork's lock (line 30)
\* while the predicate waits for the worker's mutex (line 33)
SchedMutexOwner == {w \in Workers : pc[w] = "pred"}

SchedMutexFree == SchedMutexOwner = {}

\* a run loop that keeps its mutex while it is inside startScheduledWork
WorkerMutexHeldNoUnlock(w) ==
    pc[w] \in {"waitCheck", "waitPark", "workCheck", "sswLock", "pred", "schedWaiting"}

\* a run loop that has its mutex back when the predicate is called
WorkerMutexHeldAtPredicate(w) == pc[w] \in {"waitCheck", "waitPark", "workCheck", "pred"}

\* SyncedWorker::mutex is held by runLoop except inside waitVariable.wait
\* and inside detail::Unlock
WorkerMutexHeld(w) == pc[w] \in {"waitCheck", "waitPark", "workCheck"}

WorkerMutexFree(w) == ~WorkerMutexHeld(w)

\* the steps in which the run-loop thread of w locks SyncedWorker::mutex:
\* start line 121, waitVariable.wait returning (104), ~Unlock (115) and the
\* predicate's scoped_lock (112)
LocksWorkerMutex(w) ==
    /\ pc[w] \in {"unstarted", "wakeup", "relock", "pred"}
    /\ pc'[w] # pc[w]

\* the next step of the run-loop thread of w locks TaskSchedulerBase::mutex:
\* isCompleted() (runLoop lines 103, 108), startScheduledWork line 30 or its
\* wait returning (39), ~Unlock in runNextTask (25)
WantsSchedMutex(w) == pc[w] \in {"waitCheck", "workCheck", "sswLock", "taskDone"}

\* the next step of the run-loop thread of w locks SyncedWorker::mutex of w:
\* waitVariable.wait returning (104), ~Unlock (115), the predicate (112)
WantsWorkerMutex(w) == pc[w] \in {"wakeup", "relock", "pred"}

\* the run-loop thread of w holds one of the two mutexes
HoldsLock(w) == w \in SchedMutexOwner \/ WorkerMutexHeld(w)

\* the run-loop thread of w is blocked on a mutex the run-loop thread of x
\* holds (the mutex of worker x is locked by the run loop of x and, for single
\* critical sections that lock nothing else, by requestState, getState and
\* wait)
WaitsFor(w, x) ==
    \/ WantsSchedMutex(w) /\ x \in SchedMutexOwner
    \/ WantsWorkerMutex(w) /\ x = w /\ WorkerMutexHeld(x)

\* threads that each hold a mutex and wait for one held by another of them
LockCycle ==
    \E S \in SUBSET Workers :
        /\ S # {}
        /\ \A w \in S : HoldsLock(w) /\ \E x \in S : WaitsFor(w, x)

\* ------------------------------------------------------------ promise / Task
\* std::promise::set_value: the first call stores, a later one throws
SetValue(old, v) == IF old = "none" THEN v ELSE old

\* a launch without the `catch (const TaskCancellation &)` clause
LaunchOutcomeCatchAll(k) == IF k = "value" THEN "Value" ELSE "Failed"

\* PackagedTask::launch, the outcome published for a callable
LaunchOutcome(k) ==
    CASE k = "value" -> "Value"
      [] k = "cancel" -> "Cancelled"
      [] k = "throw" -> "Failed"

\* cancel that publishes whatever started says
CancelPublishesAlways(t) == TRUE

\* cancel that tests started the wrong way round
CancelPublishesInverted(t) == started[t]

\* PackagedTask::cancel: `if (!started)`
CancelPublishes(t) == ~started[t]

\* ~Task of every task in S (base->cancel()), the object ending up `how`
DestroyTasks(S, how) ==
    /\ loc' = [t \in Tasks |-> IF t \in S THEN how ELSE loc[t]]
    /\ started' = [t \in Tasks |-> IF t \in S THEN TRUE ELSE started[t]]
    /\ outcome' = [t \in Tasks |->
                     IF t \in S /\ CancelPublishes(t)
                     THEN SetValue(outcome[t], "Cancelled") ELSE outcome[t]]
    /\ setCalls' = [t \in Tasks |->
                     IF t \in S /\ CancelPublishes(t)
                     THEN setCalls[t] + 1 ELSE setCalls[t]]
    /\ UNCHANGED <<ended, invoked>>

\* first half of PackagedTask::launch: started = true, the callable is applied
LaunchBegin(t) ==
    /\ started' = [started EXCEPT ![t] = TRUE]
    /\ invoked' = [invoked EXCEPT ![t] = @ + 1]

\* second half of PackagedTask::launch: the callable ended the way k says,
\* the outcome is published
LaunchEnd(t, k) ==
    /\ outcome' = [outcome EXCEPT ![t] = SetValue(@, LaunchOutcome(k))]
    /\ setCalls' = [setCalls EXCEPT ![t] = @ + 1]
    /\ ended' = [ended EXCEPT ![t] = TRUE]
    /\ raised' = [raised EXCEPT ![t] = k]

\* ------------------------------------------------------------ scheduler helpers
\* checkCompleted that forgets the workers still inside a task
CheckCompletedCondNoWorking(wk, q, act) == q = <<>> /\ ~act

\* checkCompleted that tests queueActive the wrong way round
CheckCompletedCondActive(wk, q, act) == wk = 0 /\ q = <<>> /\ act

\* Scheduler::checkCompleted, its condition
CheckCompletedCond(wk, q, act) == wk = 0 /\ q = <<>> /\ ~act

\* Impl::variable.notify_all(): every thread parked at line 39 wakes
NotifyAllSched(p) ==
    [w \in Workers |-> IF p[w] = "schedWaiting" THEN "sswLock" ELSE p[w]]

\* checkCompleted applied to the new scheduler fields; p is pc after the step
CheckCompleted(wk, q, act, p) ==
    /\ completed' = (completed \/ CheckCompletedCond(wk, q, act))
    /\ pc' = IF CheckCompletedCond(wk, q, act) THEN NotifyAllSched(p) ELSE p

\* waitVariable.notify_all() of worker w: the run loop parked at line 104 and
\* the wait() caller parked at line 134 wake
NotifyAllWaitPc(w, p) == [p EXCEPT ![w] = IF @ = "waiting" THEN "wakeup" ELSE @]

NotifyAllWaitWpc(w, p) == [p EXCEPT ![w] = IF @ = "parked" THEN "lock" ELSE @]

\* ------------------------------------------------------------ run loop helpers
\* a run loop without `if (requestedState == State::TERMINATE) return;`
AtLoopTopNoReturn(req) ==
    IF req = "WAIT" THEN [pc |-> "waitCheck", cs |-> "WAIT"]
    ELSE [pc |-> "workCheck", cs |-> req]

\* runLoop lines 98-107 with the worker mutex held
AtLoopTop(req) ==
    IF req = "TERMINATE" THEN [pc |-> "notifyExit", cs |-> "TERMINATE"]
    ELSE IF req = "WAIT" THEN [pc |-> "waitCheck", cs |-> "WAIT"]
    ELSE [pc |-> "workCheck", cs |-> "WORK"]

\* runLoop after waitVariable.wait returns (lines 102, 107, then 98)
AfterWait(req, cs) ==
    IF req = "WAIT" THEN [pc |-> "waitCheck", cs |-> cs]
    ELSE IF req = "WORK" THEN [pc |-> "workCheck", cs |-> cs]
    ELSE AtLoopTop(req)

\* a predicate that lets the worker take work whatever was requested
PredicateAlways(w) == TRUE

\* the predicate runLoop hands to startScheduledWork (lines 111-114)
Predicate(w) == requestedState[w] = "WORK"

\* ------------------------------------------------------------ initial state
Init ==
    /\ NDEBUG \in BOOLEAN
    /\ aborted = FALSE
    /\ queue = <<>>
    /\ queueActive = TRUE
    /\ working = 0
    /\ completed = FALSE
    /\ pc = [w \in Workers |-> "unstarted"]
    /\ currentState = [w \in Workers |-> "WAIT"]
    /\ requestedState = [w \in Workers |-> "WORK"]
    /\ task = [w \in Workers |-> 0]
    /\ notifyWait = [w \in Workers |-> 0]
    /\ nreq = 0
    /\ wpc = [w \in Workers |-> "idle"]
    /\ loc = [t \in Tasks |-> "none"]
    /\ started = [t \in Tasks |-> FALSE]
    /\ ended = [t \in Tasks |-> FALSE]
    /\ outcome = [t \in Tasks |-> "none"]
    /\ invoked = [t \in Tasks |-> 0]
    /\ setCalls = [t \in Tasks |-> 0]
    /\ admitted = <<>>
    /\ spared = {}
    /\ raised = [t \in Tasks |-> "none"]
    /\ withheld = [w \in Workers |-> {}]
    /\ dsWorker = 0
    /\ dsAlive = TRUE
    /\ accepted = {}
    /\ starts = [w \in Workers |-> 0]
    /\ queueAlive = TRUE
    /\ launchPc = [t \in Tasks |-> "idle"]
    /\ cancelPc = [t \in Tasks |-> "idle"]

\* ------------------------------------------------------------ the run loop
\* a Worker constructor that calls start() whether or not it was given a
\* DelayedStart
StartsInCtorAlways(delay) == TRUE

\* Worker::Worker lines 46-47: `if (startDelay) accept(this); else start();`
StartsInCtor(delay) == ~delay

\* Worker::start on every worker of S (SyncedWorker::start: lock the worker
\* mutex, enter runLoop): where the run-loop threads are afterwards
StartedPc(S) ==
    [x \in Workers |->
        IF x \in S /\ pc[x] = "unstarted" THEN AtLoopTop(requestedState[x]).pc ELSE pc[x]]

\* Worker::start on every worker of S: currentState afterwards (runLoop line 98)
StartedCs(S) ==
    [x \in Workers |->
        IF x \in S /\ pc[x] = "unstarted"
        THEN AtLoopTop(requestedState[x]).cs ELSE currentState[x]]

\* Worker::start on every worker of S: the count of start calls
StartedCount(S) == [x \in Workers |-> IF x \in S THEN starts[x] + 1 ELSE starts[x]]

\* Worker::Worker without a DelayedStart: start() in the constructor
Start(w) ==
    /\ Running
    /\ pc[w] = "unstarted"
    /\ w \notin accepted
    /\ StartsInCtor(FALSE)
    /\ WorkerMutexFree(w)
    /\ pc' = StartedPc({w})
    /\ currentState' = StartedCs({w})
    /\ starts' = StartedCount({w})
    /\ UNCHANGED <<buildVars, raceVars, dsWorker, dsAlive, accepted, queueAlive, schedVars, task,
                   requestedState, notifyWait, nreq, wpc, taskVars, histVars>>

\* runLoop line 103: scheduler->isCompleted() inside the WAIT loop
WaitCheck(w) ==
    /\ Running
    /\ pc[w] = "waitCheck"
    /\ SchedMutexFree
    /\ IF completed
       THEN /\ pc' = [pc EXCEPT ![w] = "notifyExit"]
            /\ currentState' = [currentState EXCEPT ![w] = "TERMINATE"]
       ELSE /\ pc' = [pc EXCEPT ![w] = "waitPark"]
            /\ UNCHANGED currentState
    /\ UNCHANGED <<buildVars, raceVars, lifeVars, schedVars, task, requestedState, notifyWait, nreq,
                   wpc, taskVars, histVars>>

\* runLoop line 104: waitVariable.wait(lock) releases the mutex and parks
WaitPark(w) ==
    /\ Running
    /\ pc[w] = "waitPark"
    /\ pc' = [pc EXCEPT ![w] = "waiting"]
    /\ UNCHANGED <<buildVars, raceVars, lifeVars, schedVars, task, workerVars, wpc, taskVars, histVars>>

\* runLoop line 104: wait returns with the mutex held again
Wakeup(w) ==
    /\ Running
    /\ pc[w] = "wakeup"
    /\ WorkerMutexFree(w)
    /\ pc' = [pc EXCEPT ![w] = AfterWait(requestedState[w], currentState[w]).pc]
    /\ currentState' =
         [currentState EXCEPT ![w] = AfterWait(requestedState[w], currentState[w]).cs]
    /\ UNCHANGED <<buildVars, raceVars, lifeVars, schedVars, task, requestedState, notifyWait, nreq,
                   wpc, taskVars, histVars>>

\* runLoop lines 108-110: isCompleted(), then Unlock releases the worker mutex
WorkCheck(w) ==
    /\ Running
    /\ pc[w] = "workCheck"
    /\ SchedMutexFree
    /\ IF completed
       THEN /\ pc' = [pc EXCEPT ![w] = "notifyExit"]
            /\ currentState' = [currentState EXCEPT ![w] = "TERMINATE"]
       ELSE /\ pc' = [pc EXCEPT ![w] = "sswLock"]
            /\ UNCHANGED currentState
    /\ UNCHANGED <<buildVars, raceVars, lifeVars, schedVars, task, requestedState, notifyWait, nreq,
                   wpc, taskVars, histVars>>

\* startScheduledWork lines 30-33: lock, isCompleted(lock)
SswLock(w) ==
    /\ Running
    /\ pc[w] = "sswLock"
    /\ SchedMutexFree
    /\ pc' = [pc EXCEPT ![w] = IF completed THEN "relock" ELSE "pred"]
    /\ UNCHANGED <<buildVars, raceVars, lifeVars, schedVars, task, workerVars, wpc, taskVars, histVars>>

\* a runNextTask that leaves the task it takes at the front of the queue
PopNothing(q) == q

\* runNextTask line 21: impl->queue.pop()
Pop(q) == Tail(q)

\* startScheduledWork lines 33-39 and runNextTask lines 20-23: the predicate
\* under the worker mutex, then break, or working++ and pop and unlock, or wait
\* (one step: the scheduler mutex is held from the predicate to the pop, and
\* requestState, which alone can run in between, touches no scheduler field)
Pred(w) ==
    /\ Running
    /\ pc[w] = "pred"
    /\ WorkerMutexFree(w)
    /\ IF ~Predicate(w)
       THEN /\ pc' = [pc EXCEPT ![w] = "relock"]
            /\ UNCHANGED <<schedVars, task, loc>>
       ELSE IF queue # <<>>
       THEN /\ working' = working + 1
            /\ queue' = Pop(queue)
            /\ task' = [task EXCEPT ![w] = Head(queue)]
            /\ loc' = [loc EXCEPT ![Head(queue)] = "worker"]
            /\ pc' = [pc EXCEPT ![w] = "launch"]
            /\ UNCHANGED <<queueActive, completed>>
       ELSE /\ pc' = [pc EXCEPT ![w] = "schedWaiting"]
            /\ UNCHANGED <<schedVars, task, loc>>
    /\ UNCHANGED <<buildVars, raceVars, lifeVars, workerVars, wpc, started, ended, outcome, invoked,
                   setCalls, histVars>>

\* runNextTask line 24, task(): launch sets started and applies the callable
Launch(w) ==
    /\ Running
    /\ pc[w] = "launch"
    /\ LaunchBegin(task[w])
    /\ pc' = [pc EXCEPT ![w] = "running"]
    /\ UNCHANGED <<buildVars, raceVars, lifeVars, schedVars, task, workerVars, wpc, loc, ended,
                   outcome, setCalls, histVars>>

\* runNextTask line 24: the callable returns or throws, launch publishes
RunTask(w) ==
    /\ Running
    /\ pc[w] = "running"
    /\ \E k \in Kinds : LaunchEnd(task[w], k)
    /\ pc' = [pc EXCEPT ![w] = "taskDone"]
    /\ UNCHANGED <<buildVars, raceVars, lifeVars, schedVars, task, workerVars, wpc, loc, started,
                   invoked, admitted, spared, withheld>>

\* runNextTask lines 25-27 and startScheduledWork lines 37-38, 32-33:
\* relock, checkCompleted, ~Task, working--, checkCompleted, next iteration
TaskDone(w) ==
    /\ Running
    /\ pc[w] = "taskDone"
    /\ SchedMutexFree
    /\ LET c1 == CheckCompletedCond(working, queue, queueActive)
           c2 == CheckCompletedCond(working - 1, queue, queueActive)
           cp == completed \/ c1 \/ c2
           p == [pc EXCEPT ![w] = IF cp THEN "relock" ELSE "pred"]
       IN /\ working' = working - 1
          /\ completed' = cp
          /\ pc' = IF c1 \/ c2 THEN NotifyAllSched(p) ELSE p
    /\ DestroyTasks({task[w]}, "finished")
    /\ spared' = spared \ {task[w]}
    /\ task' = [task EXCEPT ![w] = 0]
    /\ UNCHANGED <<buildVars, raceVars, lifeVars, queue, queueActive, workerVars, wpc, admitted, raised,
                   withheld>>

\* runLoop line 115: ~Unlock relocks the worker mutex, next iteration
Relock(w) ==
    /\ Running
    /\ pc[w] = "relock"
    /\ WorkerMutexFree(w)
    /\ pc' = [pc EXCEPT ![w] = AtLoopTop(requestedState[w]).pc]
    /\ currentState' = [currentState EXCEPT ![w] = AtLoopTop(requestedState[w]).cs]
    /\ UNCHANGED <<buildVars, raceVars, lifeVars, schedVars, task, requestedState, notifyWait, nreq,
                   wpc, taskVars, histVars>>

\* SyncedWorker::start line 125: waitVariable.notify_all() after the loop
NotifyExit(w) ==
    /\ Running
    /\ pc[w] = "notifyExit"
    /\ pc' = [pc EXCEPT ![w] = "done"]
    /\ wpc' = NotifyAllWaitWpc(w, wpc)
    /\ UNCHANGED <<buildVars, raceVars, lifeVars, schedVars, task, workerVars, taskVars, histVars>>

\* a step of worker w's run-loop thread
WorkerStep(w) ==
    \/ WaitCheck(w)
    \/ WaitPark(w)
    \/ Wakeup(w)
    \/ WorkCheck(w)
    \/ SswLock(w)
    \/ Pred(w)
    \/ Launch(w)
    \/ RunTask(w)
    \/ TaskDone(w)
    \/ Relock(w)
    \/ NotifyExit(w)

\* ------------------------------------------------------------ Task, client side
\* Task::create: the client owns the Task, its future has no outcome yet;
\* tasks are numbered in creation order
Create ==
    /\ Running
    /\ \E t \in Tasks :
         /\ loc[t] = "none"
         /\ \A u \in Tasks : u < t => loc[u] # "none"
         /\ loc' = [loc EXCEPT ![t] = "held"]
    /\ UNCHANGED <<buildVars, raceVars, lifeVars, schedVars, pc, task, workerVars, wpc, started, ended,
                   outcome, invoked, setCalls, histVars>>

\* Task::operator() by the owner (launch asserts !started)
ClientLaunch(t) ==
    /\ Running
    /\ loc[t] = "held"
    /\ ~started[t]
    /\ LaunchBegin(t)
    /\ \E k \in Kinds : LaunchEnd(t, k)
    /\ UNCHANGED <<buildVars, raceVars, lifeVars, schedVars, pc, task, workerVars, wpc, loc, admitted,
                   spared, withheld>>

\* ~Task of a Task the client owns
Drop(t) ==
    /\ Running
    /\ loc[t] = "held"
    /\ DestroyTasks({t}, "dropped")
    /\ UNCHANGED <<buildVars, raceVars, lifeVars, schedVars, pc, task, workerVars, wpc, histVars>>

\* ~PackagedTask destroys the promise: a shared state that was never given a
\* value is abandoned (it stores std::future_error, broken_promise)
AbandonPromise(old) == IF old = "none" THEN "BrokenPromise" ELSE old

\* Task::operator=(Task &&) = default, `a = std::move(b)` with a holding task
\* t and b holding task u: the unique_ptr deletes the PackagedTask of t
\* (no ~Task, so no cancel) and takes over the one of u
MoveAssign(t, u) ==
    /\ Running
    /\ t # u
    /\ loc[t] = "held"
    /\ loc[u] = "held"
    /\ loc' = [loc EXCEPT ![t] = "overwritten"]
    /\ outcome' = [outcome EXCEPT ![t] = AbandonPromise(@)]
    /\ UNCHANGED <<buildVars, raceVars, lifeVars, schedVars, pc, task, workerVars, wpc,
                   started, ended, invoked, setCalls, histVars>>

\* ------------------------------------------------------------ Task, two threads
\* One client thread calls Task::operator() while another destroys the same
\* Task: PackagedTask::launch and PackagedTask::cancel step by step, each
\* read and each write of `started` on its own.  (`started` is a plain bool
\* under NDEBUG: the conflicting accesses are a data race, of which the
\* interleavings below are the outcomes where each read sees the value
\* before or after the other thread's write.)

\* a use of the PackagedTask after ~Task freed it may crash
UseAfterFree(t) ==
    /\ loc[t] = "dropped"
    /\ aborted' = TRUE
    /\ UNCHANGED <<NDEBUG, taskVars, raised>>

\* launch line 478: assert(!started)
LaunchAssert(t) ==
    /\ Running
    /\ loc[t] = "held"
    /\ launchPc[t] = "idle"
    /\ launchPc' = [launchPc EXCEPT ![t] = "asserted"]
    /\ aborted' = (~NDEBUG /\ started[t])
    /\ UNCHANGED <<NDEBUG, cancelPc, lifeVars, schedVars, pc, task, workerVars, wpc,
                   taskVars, histVars>>

\* launch lines 480-483: started = true, the callable is applied
LaunchStart(t) ==
    /\ Running
    /\ launchPc[t] = "asserted"
    /\ launchPc' = [launchPc EXCEPT ![t] = "applied"]
    /\ \/ /\ LaunchBegin(t)
          /\ UNCHANGED <<buildVars, loc, ended, outcome, setCalls, raised>>
       \/ UseAfterFree(t)
    /\ UNCHANGED <<cancelPc, lifeVars, schedVars, pc, task, workerVars, wpc, admitted,
                   spared, withheld>>

\* launch lines 482-492: the callable ends the way k says and set_value
\* publishes; on a promise that is already satisfied set_value throws
\* std::future_error, the catch (...) clause calls set_value again, which
\* throws out of the noexcept function: std::terminate
LaunchFinish(t, k) ==
    /\ Running
    /\ launchPc[t] = "applied"
    /\ launchPc' = [launchPc EXCEPT ![t] = "done"]
    /\ \/ /\ LaunchEnd(t, k)
          /\ aborted' = (outcome[t] # "none")
          /\ UNCHANGED <<NDEBUG, loc, started, invoked>>
       \/ UseAfterFree(t)
    /\ UNCHANGED <<cancelPc, lifeVars, schedVars, pc, task, workerVars, wpc, admitted,
                   spared, withheld>>

\* ~Task lines 555-558: base->assertInactive(), assert(started == ended)
DtorAssert(t) ==
    /\ Running
    /\ loc[t] = "held"
    /\ cancelPc[t] = "idle"
    /\ cancelPc' = [cancelPc EXCEPT ![t] = "asserted"]
    /\ aborted' = (~NDEBUG /\ started[t] # ended[t])
    /\ UNCHANGED <<NDEBUG, launchPc, lifeVars, schedVars, pc, task, workerVars, wpc,
                   taskVars, histVars>>

\* cancel line 463: `if (!started)`
CancelTest(t) ==
    /\ Running
    /\ cancelPc[t] = "asserted"
    /\ cancelPc' = [cancelPc EXCEPT ![t] = IF started[t] THEN "skipFree" ELSE "tested"]
    /\ UNCHANGED <<buildVars, launchPc, lifeVars, schedVars, pc, task, workerVars, wpc,
                   taskVars, histVars>>

\* cancel lines 464-465: started = true, promise.set_value(TaskCancellation());
\* on a promise that is already satisfied set_value throws out of the
\* noexcept function: std::terminate
CancelSet(t) ==
    /\ Running
    /\ cancelPc[t] = "tested"
    /\ cancelPc' = [cancelPc EXCEPT ![t] = "ranFree"]
    /\ started' = [started EXCEPT ![t] = TRUE]
    /\ outcome' = [outcome EXCEPT ![t] = SetValue(@, "Cancelled")]
    /\ setCalls' = [setCalls EXCEPT ![t] = @ + 1]
    /\ aborted' = (outcome[t] # "none")
    /\ UNCHANGED <<NDEBUG, launchPc, lifeVars, schedVars, pc, task, workerVars, wpc, loc,
                   ended, invoked, histVars>>

\* ~Task after base->cancel(): the unique_ptr deletes the PackagedTask
DtorFree(t) ==
    /\ Running
    /\ cancelPc[t] \in {"skipFree", "ranFree"}
    /\ cancelPc' = [cancelPc EXCEPT ![t] = IF @ = "ranFree" THEN "ran" ELSE "skipped"]
    /\ loc' = [loc EXCEPT ![t] = "dropped"]
    /\ UNCHANGED <<buildVars, launchPc, lifeVars, schedVars, pc, task, workerVars, wpc,
                   started, ended, outcome, invoked, setCalls, histVars>>

\* a step of one of the two threads
RaceStep(t) ==
    \/ LaunchAssert(t)
    \/ LaunchStart(t)
    \/ \E k \in Kinds : LaunchFinish(t, k)
    \/ DtorAssert(t)
    \/ CancelTest(t)
    \/ CancelSet(t)
    \/ DtorFree(t)

\* ------------------------------------------------------------ TaskQueue
\* addTask that ignores queueActive
AdmitsAlways == TRUE

\* TaskQueue::addTask: `if (queueActive)`
Admits == queueActive

\* addTask that pushes at the front
PushFront(q, t) == <<t>> \o q

\* TaskQueue::addTask: queue.push(std::move(task))
Push(q, t) == Append(q, t)

\* Impl::variable.notify_one(): one of the threads parked at line 39, if any
NotifyOneSched(p) ==
    IF \E w \in Workers : p[w] = "schedWaiting"
    THEN {[p EXCEPT ![w] = "sswLock"] : w \in {x \in Workers : p[x] = "schedWaiting"}}
    ELSE {p}

\* getState() and getRequestedState() of a started worker both return WAIT
ObservedWaiting(w) ==
    /\ pc[w] # "unstarted"
    /\ currentState[w] = "WAIT"
    /\ requestedState[w] = "WAIT"

\* TaskQueue::addTask(Task): push and notify_one, or let the parameter die
AddTask(t) ==
    /\ Running
    /\ queueAlive
    /\ loc[t] = "held"
    /\ ~started[t]
    /\ SchedMutexFree
    /\ IF Admits
       THEN /\ queue' = Push(queue, t)
            /\ loc' = [loc EXCEPT ![t] = "queued"]
            /\ admitted' = Append(admitted, t)
            /\ withheld' = [w \in Workers |->
                               IF ObservedWaiting(w) THEN withheld[w] \cup {t}
                               ELSE withheld[w]]
            /\ pc' \in NotifyOneSched(pc)
            /\ UNCHANGED <<started, ended, outcome, invoked, setCalls, spared, raised>>
       ELSE /\ DestroyTasks({t}, "rejected")
            /\ UNCHANGED <<queue, pc, histVars>>
    /\ UNCHANGED <<buildVars, raceVars, lifeVars, queueActive, working, completed, task, workerVars, wpc>>

\* the tasks of a queue
Elems(q) == {q[i] : i \in 1..Len(q)}

\* cancel that also destroys the tasks workers hold
PendingAndHeld == Elems(queue) \cup {t \in Tasks : loc[t] = "worker"}

\* TaskQueue::cancel: the tasks the swapped-out queue destroys
Pending == Elems(queue)

\* a cancel that also closes the queue
CancelCloses(act) == FALSE

\* TaskQueue::cancel lines 72-74: queueActive is not assigned
CancelActive(act) == act

\* TaskQueue::cancel: swap with an empty queue, checkCompleted
Cancel ==
    /\ Running
    /\ queueAlive
    /\ SchedMutexFree
    /\ queue' = <<>>
    /\ queueActive' = CancelActive(queueActive)
    /\ DestroyTasks(Pending, "cleared")
    /\ CheckCompleted(working, <<>>, queueActive', pc)
    /\ spared' = spared \cup {t \in Tasks : loc[t] = "worker"}
    /\ withheld' = [w \in Workers |-> withheld[w] \ Pending]
    /\ UNCHANGED <<buildVars, raceVars, lifeVars, working, task, workerVars, wpc, admitted, raised>>

\* TaskQueue::close: queueActive = false, checkCompleted
Close ==
    /\ Running
    /\ queueAlive
    /\ SchedMutexFree
    /\ queueActive' = FALSE
    /\ CheckCompleted(working, queue, FALSE, pc)
    /\ UNCHANGED <<buildVars, raceVars, lifeVars, queue, working, task, workerVars, wpc, taskVars, histVars>>

\* a destructor that leaves queueActive as it is
DestructorKeepsActive(act) == act

\* TaskQueue::~TaskQueue line 59: queueActive = false
DestructorActive(act) == FALSE

\* TaskQueue::~TaskQueue: queueActive = false, checkCompleted; the scheduler
\* stays with the workers that share it
DestroyQueue ==
    /\ Running
    /\ queueAlive
    /\ SchedMutexFree
    /\ queueAlive' = FALSE
    /\ queueActive' = DestructorActive(queueActive)
    /\ CheckCompleted(working, queue, queueActive', pc)
    /\ UNCHANGED <<buildVars, raceVars, dsWorker, dsAlive, accepted, starts, queue, working, task,
                   workerVars, wpc, taskVars, histVars>>

\* ------------------------------------------------------------ DelayedStart
\* a startImpl that forgets the worker it holds without starting it
StartImplNone(h) == {}

\* DelayedStart::startImpl lines 21-25: the worker it calls start() on
StartImplTarget(h) == IF h # 0 THEN {h} ELSE {}

\* Worker::Worker with a DelayedStart (lines 44-46) -> DelayedStart::accept:
\* startImpl() for the worker held so far, then impl->worker = worker
ConstructDelayed(w) ==
    /\ Running
    /\ dsAlive
    /\ pc[w] = "unstarted"
    /\ w \notin accepted
    /\ LET S == StartImplTarget(dsWorker) \cup (IF StartsInCtor(TRUE) THEN {w} ELSE {})
       IN /\ pc' = StartedPc(S)
          /\ currentState' = StartedCs(S)
          /\ starts' = StartedCount(S)
    /\ dsWorker' = w
    /\ accepted' = accepted \cup {w}
    /\ UNCHANGED <<buildVars, raceVars, dsAlive, queueAlive, schedVars, task, requestedState,
                   notifyWait, nreq, wpc, taskVars, histVars>>

\* DelayedStart::start: startImpl() under the DelayedStart mutex
DelayedStartStart ==
    /\ Running
    /\ dsAlive
    /\ pc' = StartedPc(StartImplTarget(dsWorker))
    /\ currentState' = StartedCs(StartImplTarget(dsWorker))
    /\ starts' = StartedCount(StartImplTarget(dsWorker))
    /\ dsWorker' = 0
    /\ UNCHANGED <<buildVars, raceVars, dsAlive, accepted, queueAlive, schedVars, task,
                   requestedState, notifyWait, nreq, wpc, taskVars, histVars>>

\* DelayedStart::~DelayedStart: start()
DelayedStartDestroy ==
    /\ Running
    /\ dsAlive
    /\ dsAlive' = FALSE
    /\ pc' = StartedPc(StartImplTarget(dsWorker))
    /\ currentState' = StartedCs(StartImplTarget(dsWorker))
    /\ starts' = StartedCount(StartImplTarget(dsWorker))
    /\ dsWorker' = 0
    /\ UNCHANGED <<buildVars, raceVars, accepted, queueAlive, schedVars, task, requestedState,
                   notifyWait, nreq, wpc, taskVars, histVars>>

\* DelayedStart::isEmpty
IsEmpty == dsWorker = 0

\* ------------------------------------------------------------ Worker, client side
\* the assert of requestState (part_000 line 72)
AssertRequest(req, s) == req = "TERMINATE" \/ s # "TERMINATE"

\* requestState lines 73-79: the new requestedState
NewRequested(req, s) == IF req # s THEN s ELSE req

\* a requestState that never notifies waitVariable
NeedsNotifyNever(req, s) == FALSE

\* requestState lines 73-77: notifyWait
NeedsNotify(req, s) == req # s /\ req = "WAIT"

\* SyncedWorker::requestState, the critical section (lines 70-80)
RequestState(w, s) ==
    /\ Running
    /\ nreq < MaxRequests
    /\ WorkerMutexFree(w)
    /\ nreq' = nreq + 1
    /\ IF ~NDEBUG /\ ~AssertRequest(requestedState[w], s)
       THEN /\ aborted' = TRUE
            /\ UNCHANGED <<requestedState, notifyWait>>
       ELSE /\ requestedState' =
                 [requestedState EXCEPT ![w] = NewRequested(requestedState[w], s)]
            /\ notifyWait' =
                 [notifyWait EXCEPT
                    ![w] = IF NeedsNotify(requestedState[w], s) THEN @ + 1 ELSE @]
            /\ UNCHANGED aborted
    /\ withheld' = [withheld EXCEPT ![w] = {}]
    /\ UNCHANGED <<NDEBUG, raceVars, lifeVars, schedVars, pc, task, currentState, wpc, taskVars,
                   admitted, spared, raised>>

\* SyncedWorker::requestState line 83: waitVariable.notify_all()
RequestNotify(w) ==
    /\ Running
    /\ notifyWait[w] > 0
    /\ notifyWait' = [notifyWait EXCEPT ![w] = @ - 1]
    /\ pc' = NotifyAllWaitPc(w, pc)
    /\ wpc' = NotifyAllWaitWpc(w, wpc)
    /\ UNCHANGED <<buildVars, raceVars, lifeVars, schedVars, task, currentState, requestedState, nreq,
                   taskVars, histVars>>

\* Worker::wait is called
WaitCall(w) ==
    /\ Running
    /\ wpc[w] = "idle"
    /\ wpc' = [wpc EXCEPT ![w] = "schedWait"]
    /\ UNCHANGED <<buildVars, raceVars, lifeVars, schedVars, pc, task, workerVars, taskVars, histVars>>

\* SyncedWorker::wait line 129: TaskSchedulerBase::wait returns once completed
SchedulerWait(w) ==
    /\ Running
    /\ wpc[w] = "schedWait"
    /\ SchedMutexFree
    /\ completed
    /\ wpc' = [wpc EXCEPT ![w] = "notify"]
    /\ UNCHANGED <<buildVars, raceVars, lifeVars, schedVars, pc, task, workerVars, taskVars, histVars>>

\* SyncedWorker::wait line 130: waitVariable.notify_all()
WaitNotify(w) ==
    /\ Running
    /\ wpc[w] = "notify"
    /\ wpc' = [wpc EXCEPT ![w] = "lock"]
    /\ pc' = NotifyAllWaitPc(w, pc)
    /\ UNCHANGED <<buildVars, raceVars, lifeVars, schedVars, task, workerVars, taskVars, histVars>>

\* SyncedWorker::wait lines 132-135: lock, return or park
WaitLock(w) ==
    /\ Running
    /\ wpc[w] = "lock"
    /\ WorkerMutexFree(w)
    /\ wpc' = [wpc EXCEPT ![w] = IF currentState[w] = "TERMINATE"
                                  THEN "returned" ELSE "parked"]
    /\ UNCHANGED <<buildVars, raceVars, lifeVars, schedVars, pc, task, workerVars, taskVars, histVars>>

\* a step of the thread inside Worker::wait of worker w
WaiterStep(w) ==
    \/ SchedulerWait(w)
    \/ WaitNotify(w)
    \/ WaitLock(w)

\* std::condition_variable::wait may return without a notification
SpuriousWakeup(w) ==
    /\ Running
    /\ \/ /\ pc[w] = "schedWaiting"
          /\ pc' = [pc EXCEPT ![w] = "sswLock"]
          /\ UNCHANGED wpc
       \/ /\ pc[w] = "waiting"
          /\ pc' = [pc EXCEPT ![w] = "wakeup"]
          /\ UNCHANGED wpc
       \/ /\ wpc[w] = "parked"
          /\ wpc' = [wpc EXCEPT ![w] = "lock"]
          /\ UNCHANGED pc
    /\ UNCHANGED <<buildVars, raceVars, lifeVars, schedVars, task, workerVars, taskVars, histVars>>

\* ------------------------------------------------------------ specification
Next ==
    \/ \E w \in Workers : Start(w)
    \/ \E w \in Workers : WorkerStep(w)
    \/ Create
    \/ \E t \in Tasks : ClientLaunch(t)
    \/ \E t \in Tasks : Drop(t)
    \/ \E t \in Tasks : AddTask(t)
    \/ Cancel
    \/ Close
    \/ \E w \in Workers, s \in State : RequestState(w, s)
    \/ \E w \in Workers : RequestNotify(w)
    \/ \E w \in Workers : WaitCall(w)
    \/ \E w \in Workers : WaiterStep(w)
    \/ \E w \in Workers : SpuriousWakeup(w)
    \/ \E w \in Workers : ConstructDelayed(w)
    \/ DelayedStartStart
    \/ DelayedStartDestroy
    \/ DestroyQueue
    \/ \E t \in Tasks : RaceStep(t)
    \/ \E t, u \in Tasks : MoveAssign(t, u)

Spec == Init /\ [][Next]_vars

\* The scheduler under clients that create, submit, launch and drop tasks,
\* close and cancel the queue and start workers, and never call requestState
\* or wait: every worker keeps requestedState = WORK, no assert is evaluated,
\* so the debug and the release build behave alike.
WorkPath(w) ==
    \/ WorkCheck(w)
    \/ SswLock(w)
    \/ Pred(w)
    \/ Launch(w)
    \/ RunTask(w)
    \/ TaskDone(w)
    \/ Relock(w)
    \/ NotifyExit(w)

NextQueue ==
    \/ \E w \in Workers : Start(w)
    \/ \E w \in Workers : WorkPath(w)
    \/ Create
    \/ \E t \in Tasks : ClientLaunch(t)
    \/ \E t \in Tasks : Drop(t)
    \/ \E t \in Tasks : AddTask(t)
    \/ Cancel
    \/ Close

InitQueue == Init /\ NDEBUG = TRUE

SpecQueue == InitQueue /\ [][NextQueue]_vars

\* One worker on the queue, with clients that also call requestState and
\* wait on it, in both builds.
NextWorker ==
    \/ Start(1)
    \/ WorkerStep(1)
    \/ Create
    \/ \E t \in Tasks : AddTask(t)
    \/ Cancel
    \/ Close
    \/ \E s \in State : RequestState(1, s)
    \/ RequestNotify(1)
    \/ WaitCall(1)
    \/ WaiterStep(1)
    \/ SpuriousWakeup(1)

SpecWorker == Init /\ [][NextWorker]_vars

\* The scheduling the threads get: the run-loop thread of a worker, a thread
\* inside Worker::wait and a requestState call past its critical section each
\* take their next step when it stays possible.  Nothing obliges a client to
\* call anything, nor a condition variable to wake up spuriously.
Fairness ==
    \A w \in Workers :
        /\ SF_vars(WorkerStep(w))
        /\ SF_vars(WaiterStep(w))
        /\ WF_vars(RequestNotify(w))

FairWorker == SpecWorker /\ Fairness

\* Two workers on one queue that is filled and closed; clients wait on the
\* first worker and call requestState on the second one only.
NextClose ==
    \/ \E w \in Workers : Start(w)
    \/ \E w \in Workers : WorkerStep(w)
    \/ Create
    \/ \E t \in Tasks : AddTask(t)
    \/ Close
    \/ \E s \in State : RequestState(2, s)
    \/ RequestNotify(2)
    \/ WaitCall(1)
    \/ WaiterStep(1)
    \/ \E w \in Workers : SpuriousWakeup(w)

FairClose == Init /\ [][NextClose]_vars /\ Fairness

\* Workers constructed with or without the DelayedStart, which is told to
\* start and is destroyed, on a queue that is filled and stays open (release
\* build; no requestState, so every started worker works).
NextDelayed ==
    \/ \E w \in Workers : Start(w)
    \/ \E w \in Workers : ConstructDelayed(w)
    \/ DelayedStartStart
    \/ DelayedStartDestroy
    \/ \E w \in Workers : WorkCheck(w)
    \/ \E w \in Workers : SswLock(w)
    \/ \E w \in Workers : Pred(w)
    \/ \E w \in Workers : Launch(w)
    \/ \E w \in Workers : RunTask(w)
    \/ \E w \in Workers : TaskDone(w)
    \/ Create
    \/ \E t \in Tasks : AddTask(t)

SpecDelayed == InitQueue /\ [][NextDelayed]_vars

\* Workers on a queue that is filled and whose front-end is then destroyed
\* (release build; no requestState, no cancel), each run-loop thread taking
\* its next step when it stays possible.
NextDestroy ==
    \/ \E w \in Workers : Start(w)
    \/ \E w \in Workers : WorkPath(w)
    \/ Create
    \/ \E t \in Tasks : AddTask(t)
    \/ DestroyQueue

FairDestroy ==
    /\ InitQueue
    /\ [][NextDestroy]_vars
    /\ \A w \in Workers : WF_vars(WorkPath(w))

\* One worker on a queue that is filled and stays open, with clients that
\* call requestState on it; the run-loop thread, which contends with no other
\* thread for long, and a pending notify take their next step.
NextHold ==
    \/ Start(1)
    \/ WorkerStep(1)
    \/ Create
    \/ \E t \in Tasks : AddTask(t)
    \/ \E s \in State : RequestState(1, s)
    \/ RequestNotify(1)
    \/ SpuriousWakeup(1)

FairHold ==
    /\ Init
    /\ [][NextHold]_vars
    /\ WF_vars(WorkerStep(1))
    /\ WF_vars(RequestNotify(1))

\* Tasks that one client thread launches while another destroys them, in
\* both builds.
NextRace ==
    \/ Create
    \/ \E t \in Tasks : RaceStep(t)

SpecRace == Init /\ [][NextRace]_vars

\* Workers on a queue that is filled, cancelled and closed and whose
\* front-end is destroyed (release build; no requestState).
NextLatch ==
    \/ \E w \in Workers : Start(w)
    \/ \E w \in Workers : WorkPath(w)
    \/ Create
    \/ \E t \in Tasks : AddTask(t)
    \/ Cancel
    \/ Close
    \/ DestroyQueue

SpecLatch == InitQueue /\ [][NextLatch]_vars

\* Clients that create tasks and launch, drop, move-assign or submit them to
\* a queue without workers, which they cancel and close, in both builds.
NextMove ==
    \/ Create
    \/ \E t \in Tasks : ClientLaunch(t)
    \/ \E t \in Tasks : Drop(t)
    \/ \E t, u \in Tasks : MoveAssign(t, u)
    \/ \E t \in Tasks : AddTask(t)
    \/ Cancel
    \/ Close

SpecMove == Init /\ [][NextMove]_vars

\* Workers on a queue that stays empty, with clients that call requestState
\* on every worker, wait on the first one, cancel and close (release build):
\* the run loops go through their WAIT loop, isCompleted() and the predicate.
IdlePath(w) ==
    \/ WaitCheck(w)
    \/ WaitPark(w)
    \/ Wakeup(w)
    \/ WorkCheck(w)
    \/ SswLock(w)
    \/ Pred(w)
    \/ Relock(w)
    \/ NotifyExit(w)

NextLocks ==
    \/ \E w \in Workers : Start(w)
    \/ \E w \in Workers : IdlePath(w)
    \/ Cancel
    \/ Close
    \/ \E w \in Workers, s \in State : RequestState(w, s)
    \/ \E w \in Workers : RequestNotify(w)
    \/ WaitCall(1)
    \/ WaiterStep(1)
    \/ \E w \in Workers : SpuriousWakeup(w)

SpecLocks == InitQueue /\ [][NextLocks]_vars

\* ------------------------------------------------------------ observers
\* the workers between runNextTask's pop and the working-- that follows it
InTask == {w \in Workers : pc[w] \in {"launch", "running", "taskDone"}}

\* the Task object is gone (its destructor ran)
Destroyed(t) == loc[t] \in {"dropped", "rejected", "cleared", "finished"}

\* TypedTaskResult::success
Success(o) == o = "Value"

\* TypedTaskResult::getReturnValue is not nullptr
GetReturnValue(o) == o = "Value"

\* TypedTaskResult::getCancellation is not nullptr
GetCancellation(o) == o = "Cancelled"

\* the workers whose run loop was started
StartedWorkers == {w \in Workers : pc[w] # "unstarted"}

\* the place of task t in a sequence without repetitions (0: absent)
Pos(seq, t) == IF \E i \in 1..Len(seq) : seq[i] = t
               THEN CHOOSE i \in 1..Len(seq) : seq[i] = t
               ELSE 0

\* ------------------------------------------------------------ properties
\* C1: completed implies the queue is closed and empty, working = 0 and no
\* worker holds a dequeued task; completed never goes back to false, and
\* after it no worker dequeues a task and no admitted task is launched.
C1_CompletedLatch ==
    /\ [](completed =>
            /\ ~queueActive
            /\ queue = <<>>
            /\ working = 0
            /\ \A w \in Workers :
                 pc[w] \notin {"launch", "running", "taskDone"} /\ task[w] = 0)
    /\ [][completed =>
            /\ completed'
            /\ task' = task
            /\ \A t \in Elems(admitted) : invoked'[t] = invoked[t]]_vars

\* completion latched after a task ran, with a worker woken inside
\* startScheduledWork that must now leave without a task
C1_Witness ==
    /\ completed
    /\ \E t \in Tasks : loc[t] = "finished"
    /\ \E w \in Workers : pc[w] = "sswLock"

C3_DropCancels ==
    /\ [][\A t \in Tasks :
            (~Destroyed(t) /\ Destroyed(t)') =>
               /\ ~started[t] =>
                    /\ GetCancellation(outcome'[t])
                    /\ ~GetReturnValue(outcome'[t])
                    /\ ~Success(outcome'[t])
                    /\ invoked'[t] = 0
               /\ (started[t] /\ ended[t]) =>
                    /\ outcome'[t] = outcome[t]
                    /\ setCalls'[t] = setCalls[t]]_vars
    /\ [][\A t \in Tasks :
            Destroyed(t) => invoked'[t] = invoked[t] /\ outcome'[t] = outcome[t]]_vars

\* a Task dropped before launch next to a Task dropped after its launch
C3_Witness ==
    \E t, u \in Tasks :
        /\ loc[t] = "dropped" /\ invoked[t] = 0 /\ outcome[t] = "Cancelled"
        /\ loc[u] = "dropped" /\ ended[u] /\ outcome[u] = "Value"

\* C4: addTask on a closed queue never pushes: the Task is destroyed, its
\* future holds Cancelled, queue, working and completed keep their values,
\* and the task is never dequeued nor invoked.
C4_ClosedRejects ==
    /\ [][\A t \in Tasks :
            (loc[t] = "held" /\ loc'[t] \in {"queued", "rejected"} /\ ~queueActive) =>
               /\ loc'[t] = "rejected"
               /\ GetCancellation(outcome'[t])
               /\ invoked'[t] = 0
               /\ UNCHANGED <<queue, queueActive, working, completed>>]_vars
    /\ [](\A t \in Tasks :
            loc[t] = "rejected" =>
               /\ GetCancellation(outcome[t])
               /\ invoked[t] = 0
               /\ t \notin Elems(queue)
               /\ \A w \in Workers : task[w] # t)

\* a task rejected by a closed queue that still has work pending
C4_Witness ==
    /\ ~queueActive
    /\ queue # <<>>
    /\ \E t \in Tasks : loc[t] = "rejected"

\* what C5 says of the pending tasks: cancel() destroys every task of the
\* queue, each future holds Cancelled and no such task is ever invoked
C5_PendingCancelled ==
    /\ [][\A t \in Tasks :
            (loc[t] = "queued" /\ loc'[t] = "cleared") =>
               /\ queue' = <<>>
               /\ \A u \in Elems(queue) :
                    loc'[u] = "cleared" /\ GetCancellation(outcome'[u])]_vars
    /\ [](\A t \in Tasks :
            loc[t] = "cleared" => GetCancellation(outcome[t]) /\ invoked[t] = 0)

\* what C5 says of a task a worker holds during cancel(): cancel() leaves it
\* alone and launch alone publishes its outcome
C5_HeldNotAborted ==
    /\ [][\A t \in Tasks :
            loc[t] = "worker" =>
               /\ loc'[t] \in {"worker", "finished"}
               /\ (outcome'[t] # outcome[t]) => (~ended[t] /\ ended'[t])]_vars
    /\ [](\A t \in spared : loc[t] = "worker" /\ invoked[t] <= 1)
    /\ [][\A t \in spared :
            t \notin spared' => (loc'[t] = "finished" /\ invoked[t] = 1 /\ ended[t])]_vars

\* C5 as stated: ... and the outcome of a task held during cancel() is
\* Value or Failed.
C5_Original ==
    /\ C5_PendingCancelled
    /\ C5_HeldNotAborted
    /\ [](\A t \in spared : outcome[t] \in {"none", "Value", "Failed"})

\* C5 amended: ... and the outcome of a task held during cancel() is the one
\* launch publishes for its callable: Value, Failed, or Cancelled when the
\* callable itself raised TaskCancellation.
C5_CancelPending ==
    /\ C5_PendingCancelled
    /\ C5_HeldNotAborted
    /\ [](\A t \in spared :
            /\ outcome[t] \in {"none", "Value", "Failed", "Cancelled"}
            /\ outcome[t] # "none" => (invoked[t] = 1 /\ ended[t]))

\* cancel() ran while a worker held one task and another was pending; the
\* held task then ended with its own result
C5_Witness ==
    \E t, u \in Tasks :
        /\ t \in spared /\ ended[t] /\ outcome[t] = "Value"
        /\ loc[u] = "cleared"

\* C6: a worker always dequeues the oldest pending task, and while a single
\* worker drains the queue, a task is launched only after every task that
\* addTask admitted before it was launched (or destroyed by cancel()).
C6_Fifo ==
    /\ [][\A w \in Workers :
            (task[w] = 0 /\ task'[w] # 0) =>
               /\ task'[w] = Head(queue)
               /\ queue' = Tail(queue)
               /\ \A u \in Elems(queue') :
                    Pos(admitted, task'[w]) < Pos(admitted, u)]_vars
    /\ [][\A w \in Workers :
            (StartedWorkers = {w} /\ task[w] # 0
               /\ ~started[task[w]] /\ started'[task[w]]) =>
               \A a \in Tasks :
                  (0 < Pos(admitted, a) /\ Pos(admitted, a) < Pos(admitted, task[w])) =>
                     (invoked[a] = 1 \/ loc[a] = "cleared")]_vars

\* a single worker launched two tasks that were admitted in an order that is
\* not the order of their creation
C6_Witness ==
    /\ Cardinality(StartedWorkers) = 1
    /\ Len(admitted) >= 2
    /\ admitted[1] > admitted[2]
    /\ invoked[admitted[1]] = 1
    /\ invoked[admitted[2]] = 1

\* C7: once requestedState is TERMINATE no requestState call changes it.
C7_RequestedTerminateFinal ==
    [][\A w \in Workers :
         requestedState[w] = "TERMINATE" => requestedState'[w] = "TERMINATE"]_vars

\* C8: currentState is WAIT until the run loop starts (requestedState is WORK
\* until the first requestState), it becomes TERMINATE only in the step in
\* which the run loop returns, and from then on it stays TERMINATE and the
\* worker's thread neither dequeues nor launches a task.
C8_TerminateTerminal ==
    /\ [](\A w \in Workers :
            /\ pc[w] = "unstarted" => currentState[w] = "WAIT"
            /\ nreq = 0 => requestedState[w] = "WORK")
    /\ [][\A w \in Workers :
            (currentState[w] # "TERMINATE" /\ currentState'[w] = "TERMINATE") =>
               (pc[w] \notin {"notifyExit", "done"} /\ pc'[w] = "notifyExit")]_vars
    /\ [][\A w \in Workers :
            currentState[w] = "TERMINATE" =>
               /\ currentState'[w] = "TERMINATE"
               /\ pc[w] \in {"notifyExit", "done"}
               /\ pc'[w] \in {"notifyExit", "done"}
               /\ task[w] = 0 /\ task'[w] = 0]_vars

\* a terminated worker that was then asked to WORK, with a task pending
C8_Witness ==
    /\ currentState[1] = "TERMINATE"
    /\ pc[1] = "done"
    /\ requestedState[1] = "WORK"
    /\ queue # <<>>

\* the queue is closed and worker w has been started
ClosedWithWorker(w) == ~queueActive /\ pc[w] # "unstarted"

\* every admitted task was executed by a worker and the latch is set
Drained ==
    /\ completed
    /\ \A t \in Elems(admitted) : loc[t] = "finished" /\ invoked[t] = 1

\* C9: with a started worker whose requestedState stays WORK, after close()
\* every admitted task is eventually executed and isCompleted() becomes true,
\* and a wait() on that worker eventually returns with the worker in TERMINATE.
C9_CloseDrains ==
    \A w \in Workers :
        [](requestedState[w] = "WORK") =>
            /\ ClosedWithWorker(w) ~> (aborted \/ Drained)
            /\ (ClosedWithWorker(w) /\ wpc[w] # "idle") ~>
                   (aborted \/ (wpc[w] = "returned" /\ currentState[w] = "TERMINATE"))

\* C10: a worker parked in startScheduledWork on an open, empty queue that is
\* asked to WAIT eventually shows currentState = WAIT, unless a task is
\* submitted, the queue is closed or another state is requested first.
C10_WaitLeavesScheduler ==
    \A w \in Workers :
        (/\ pc[w] = "schedWaiting" /\ requestedState[w] = "WAIT"
         /\ queueActive /\ queue = <<>>)
          ~> \/ currentState[w] = "WAIT"
             \/ requestedState[w] # "WAIT"
             \/ ~queueActive
             \/ queue # <<>>
             \/ aborted

\* C11: after requestState(TERMINATE) on a started worker, currentState
\* eventually is TERMINATE, wherever the run loop is (parked in its WAIT loop,
\* parked in startScheduledWork, running a task), unless another state is
\* requested first.
C11_TerminateReached ==
    \A w \in Workers :
        (pc[w] # "unstarted" /\ requestedState[w] = "TERMINATE")
          ~> \/ currentState[w] = "TERMINATE"
             \/ requestedState[w] # "TERMINATE"
             \/ aborted

\* C12: a wait() on a worker whose currentState is TERMINATE returns, whatever
\* the state of the scheduler (the queue may be open and not completed).
C12_WaitOnTerminated ==
    \A w \in Workers :
        (wpc[w] \notin {"idle", "returned"} /\ currentState[w] = "TERMINATE")
          ~> (wpc[w] = "returned" \/ aborted)

\* C13: once completed is latched, a wait() on a started worker eventually
\* returns, also when the worker is parked or about to park in its WAIT loop;
\* wait() returns only with currentState = TERMINATE.
C13_WaitAfterCompletion ==
    /\ [](\A w \in Workers : wpc[w] = "returned" => currentState[w] = "TERMINATE")
    /\ \A w \in Workers :
         (completed /\ pc[w] # "unstarted" /\ wpc[w] # "idle")
           ~> (wpc[w] = "returned" \/ aborted)

\* C14: a worker the DelayedStart holds has not entered its run loop
\* (currentState WAIT, no task, start() never called); its run loop begins
\* only in a step in which the DelayedStart lets go of it (accept of another
\* worker, start(), destructor); a worker constructed without a DelayedStart
\* is in its run loop when its constructor returns.
C14_DelayedNotRunning ==
    /\ [](\A w \in Workers :
            dsWorker = w =>
               /\ pc[w] = "unstarted"
               /\ currentState[w] = "WAIT"
               /\ task[w] = 0
               /\ starts[w] = 0)
    /\ [][\A w \in Workers :
            (dsWorker = w /\ pc'[w] # "unstarted") =>
               \/ dsWorker' \in accepted' \ accepted
               \/ dsWorker' = 0]_vars
    /\ [][\A w \in Workers :
            (starts[w] = 0 /\ starts'[w] = 1 /\ w \notin accepted') =>
               pc'[w] # "unstarted"]_vars

\* the first worker was let go when the second was accepted and runs a task
\* while the second is still held with a task pending
C14_Witness ==
    /\ dsWorker = 2
    /\ pc[2] = "unstarted"
    /\ 1 \in accepted
    /\ pc[1] = "running"
    /\ queue # <<>>

\* the workers the DelayedStart was given and that were not started yet
HeldWorkers == {w \in accepted : starts[w] = 0}

\* C15: the DelayedStart holds at most one worker, isEmpty() is true exactly
\* when it holds none, accept starts the worker held so far before it stores
\* the new one, start() on an empty DelayedStart starts nothing, no worker is
\* started twice and after the destructor every accepted worker was started.
C15_DelayedStartCustody ==
    /\ [](/\ Cardinality(HeldWorkers) <= 1
          /\ IsEmpty <=> HeldWorkers = {}
          /\ ~IsEmpty => HeldWorkers = {dsWorker}
          /\ \A w \in Workers : starts[w] <= 1
          /\ ~dsAlive => \A w \in accepted : starts[w] = 1)
    /\ [][\A w \in Workers :
            (w \notin accepted /\ w \in accepted') =>
               /\ dsWorker' = w
               /\ starts'[w] = 0
               /\ dsWorker # 0 =>
                    (starts'[dsWorker] = 1 /\ pc'[dsWorker] # "unstarted")]_vars
    /\ [][(IsEmpty /\ IsEmpty') => \A w \in accepted : starts'[w] = starts[w]]_vars

\* two workers went through the DelayedStart, the first started by the
\* accept of the second, the second by the destructor
C15_Witness ==
    /\ ~dsAlive
    /\ accepted = {1, 2}
    /\ \A w \in accepted : starts[w] = 1 /\ pc[w] # "unstarted"

C17_LaunchPublishes ==
    /\ [][\A t \in Tasks :
            invoked'[t] # invoked[t] =>
               (~started[t] /\ started'[t] /\ invoked[t] = 0 /\ invoked'[t] = 1)]_vars
    /\ [][\A t \in Tasks :
            (~ended[t] /\ ended'[t]) =>
               /\ raised'[t] \in Kinds
               /\ raised'[t] = "value" => outcome'[t] = "Value"
               /\ raised'[t] = "cancel" => outcome'[t] = "Cancelled"
               /\ raised'[t] = "throw" => outcome'[t] = "Failed"
               /\ setCalls'[t] = 1
               /\ invoked'[t] = 1
               /\ ~aborted']_vars
    /\ [][\A w \in Workers :
            (pc[w] = "running" /\ pc'[w] # "running") =>
               (pc'[w] = "taskDone" /\ ended'[task[w]])]_vars

\* a single worker ran a callable that threw an exception and is now running
\* the next task
C17_Witness ==
    /\ Cardinality(StartedWorkers) = 1
    /\ \E t, u \in Tasks :
         /\ raised[t] = "throw" /\ loc[t] = "finished" /\ outcome[t] = "Failed"
         /\ \E w \in Workers : task[w] = u /\ pc[w] = "running"

\* C18: a task admitted while a started worker shows currentState WAIT and
\* requestedState WAIT is not dequeued by that worker before the next
\* requestState call on it; once requestedState is WORK the worker eventually
\* runs a queued task (unless cancel() drops it or another state is requested).
C18_WaitingWorkerHoldsOff ==
    /\ [][\A w \in Workers : \A t \in withheld[w] :
            /\ task[w] # t
            /\ task'[w] # t]_vars
    /\ \A t \in Tasks :
         (/\ pc[1] # "unstarted" /\ currentState[1] # "TERMINATE"
          /\ requestedState[1] = "WORK" /\ loc[t] = "queued")
           ~> \/ loc[t] = "finished" /\ invoked[t] = 1
              \/ loc[t] = "cleared"
              \/ requestedState[1] # "WORK"
              \/ aborted

\* a task was admitted while the worker was parked in its WAIT loop, WORK was
\* then requested and the worker is running that task
C18_Witness ==
    \E t \in Tasks :
        /\ nreq = 2
        /\ requestedState[1] = "WORK"
        /\ currentState[1] = "WAIT"
        /\ task[1] = t
        /\ pc[1] = "running"
        /\ withheld[1] = {}

\* C19: cancel() empties the queue and leaves queueActive, working and the
\* tasks workers hold as they are, latching completed only if the queue is
\* closed and working = 0; an open queue is never completed, addTask on an
\* open queue admits, before and after cancel(), and close() latches
\* completed exactly when the queue is empty and working = 0, at once or when
\* the last task in flight returns.
C19_CancelFrame ==
    /\ [][(\E t \in Tasks : loc[t] = "queued" /\ loc'[t] = "cleared") =>
            /\ queue' = <<>>
            /\ UNCHANGED <<queueActive, working, task, admitted>>
            /\ completed' = (completed \/ (~queueActive /\ working = 0))
            /\ \A u \in Tasks :
                 loc[u] # "queued" =>
                    /\ loc'[u] = loc[u]
                    /\ outcome'[u] = outcome[u]
                    /\ started'[u] = started[u]]_vars
    /\ [](queueActive => ~completed)
    /\ [](completed <=> (~queueActive /\ queue = <<>> /\ working = 0))
    /\ [][\A t \in Tasks :
            (queueActive /\ loc[t] = "held" /\ loc'[t] \in {"queued", "rejected"}) =>
               (loc'[t] = "queued" /\ queue' = Append(queue, t))]_vars

\* cancel() dropped a task while another was in flight on the open queue; a
\* task admitted afterwards was run, the queue was closed and completed
C19_Witness ==
    /\ completed
    /\ \E u, t \in Tasks :
         /\ loc[u] = "cleared"
         /\ loc[t] = "finished"
         /\ Pos(admitted, u) # 0
         /\ Pos(admitted, u) < Pos(admitted, t)

\* C20 as stated: no thread acquires a worker's lock while it holds the
\* scheduler's lock.
C20_NoWorkerLockUnderSchedulerLock ==
    [][\A w \in Workers : w \in SchedMutexOwner => ~LocksWorkerMutex(w)]_vars

\* C20: a thread acquires a worker's lock while it holds the scheduler's lock
\* only in the scheduling predicate: the worker's own run-loop thread, which
\* released its lock before it entered startScheduledWork, takes it for the
\* read of requestedState and has released it when the predicate returns; no
\* thread holds both locks from one step to the next.
C20_PredicateLocksBriefly ==
    /\ [](\A w \in Workers : ~(w \in SchedMutexOwner /\ WorkerMutexHeld(w)))
    /\ [][\A w \in Workers :
            (w \in SchedMutexOwner /\ LocksWorkerMutex(w)) =>
               /\ pc[w] = "pred"
               /\ WorkerMutexFree(w)
               /\ WorkerMutexFree(w)'
               /\ requestedState'[w] = requestedState[w]
               /\ (pc'[w] = "relock") = (requestedState[w] # "WORK")]_vars

\* the predicate, run under the scheduler's lock, read a requested state
\* other than WORK and sent the worker out of startScheduledWork
C20_Witness ==
    \E w \in Workers :
        /\ pc[w] = "relock"
        /\ requestedState[w] # "WORK"
        /\ ~completed

\* C21: while a worker is inside a task's callable its thread holds neither
\* the scheduler's mutex nor the worker's mutex, so unless another worker is
\* in its own critical section the scheduler's mutex is free (addTask, close,
\* cancel and isCompleted go through) and the worker's mutex is free
\* (requestState and getState go through).
C21_NoLockAcrossTask ==
    \A w \in Workers :
        pc[w] \in {"launch", "running"} =>
           /\ w \notin SchedMutexOwner
           /\ WorkerMutexFree(w)
           /\ (Running /\ queueAlive /\ SchedMutexOwner \ {w} = {}) =>
                 /\ SchedMutexFree
                 /\ ENABLED Close
                 /\ ENABLED Cancel
                 /\ \A t \in Tasks :
                      (loc[t] = "held" /\ ~started[t]) => ENABLED AddTask(t)
           /\ (Running /\ nreq < MaxRequests) =>
                 \A s \in State : ENABLED RequestState(w, s)

\* a worker is inside a callable while a client holds a task it has not
\* submitted yet and may still call requestState
C21_Witness ==
    \E w \in Workers, t \in Tasks :
        /\ pc[w] = "running"
        /\ loc[t] = "held"
        /\ ~started[t]
        /\ nreq < MaxRequests
        /\ Running

\* C22: when launch() and cancel() run concurrently on a task that was not
\* started, exactly one of them runs its branch: never both (the callable
\* invoked and cancel's set_value reached), and once both calls are over
\* either the callable ran once and its outcome is published or Cancelled is
\* published and the callable never ran.
C22_ExactlyOneBranch ==
    \A t \in Tasks :
        (launchPc[t] # "idle" /\ cancelPc[t] # "idle") =>
           /\ ~(invoked[t] > 0 /\ cancelPc[t] \in {"ranFree", "ran"})
           /\ (launchPc[t] = "done" /\ cancelPc[t] \in {"ran", "skipped"}) =>
                 \/ /\ invoked[t] = 1
                    /\ cancelPc[t] = "skipped"
                    /\ raised[t] # "none"
                    /\ outcome[t] = LaunchOutcome(raised[t])
                 \/ /\ invoked[t] = 0
                    /\ cancelPc[t] = "ran"
                    /\ outcome[t] = "Cancelled"

\* C23: the assert of requestState(s) fails exactly when requestedState is
\* TERMINATE and s is not: a request made while every worker's requestedState
\* is WAIT or WORK passes it, and in a debug build no request takes
\* requestedState out of TERMINATE.
C23_AssertRejectsLeavingTerminate ==
    [][/\ (nreq' # nreq /\ aborted' /\ ~aborted) =>
             \E w \in Workers : requestedState[w] = "TERMINATE"
       /\ \A w \in Workers :
             (requestedState[w] = "TERMINATE" /\ requestedState'[w] # "TERMINATE") =>
                NDEBUG]_vars

\* C24: startScheduledWork evaluates the predicate only with the scheduler
\* mutex held and completed not set (a completed scheduler makes it return
\* first); a predicate that returns false makes it return with the queue,
\* working and completed as they were; and a task leaves the queue for a
\* worker only in the step in which that worker's predicate returned true,
\* the worker taking the head of the queue and working growing by one.
C24_PredicateGatesDequeue ==
    /\ [](\A w \in Workers : pc[w] = "pred" => (~completed /\ SchedMutexOwner = {w}))
    /\ [][\A w \in Workers :
            (pc[w] = "pred" /\ pc'[w] # "pred" /\ requestedState[w] # "WORK") =>
               /\ pc'[w] = "relock"
               /\ task'[w] = task[w]
               /\ UNCHANGED <<queue, queueActive, working, completed, loc>>]_vars
    /\ [][\A t \in Tasks :
            (loc[t] = "queued" /\ loc'[t] = "worker") =>
               \E w \in Workers :
                  /\ pc[w] = "pred"
                  /\ requestedState[w] = "WORK"
                  /\ ~completed
                  /\ t = Head(queue)
                  /\ queue' = Tail(queue)
                  /\ working' = working + 1
                  /\ task'[w] = t
                  /\ pc'[w] = "launch"]_vars

\* the predicate returned false with a task pending: the worker is on its way
\* out of startScheduledWork and the task is still in the queue
C24_Witness ==
    \E w \in Workers :
        /\ pc[w] = "relock"
        /\ requestedState[w] # "WORK"
        /\ queue # <<>>
        /\ ~completed

\* C25: whenever the scheduler mutex is free, a queue that is closed and
\* empty with working = 0 is completed (a task finishing, close, cancel and
\* the destructor latch before they unlock), and working is the number of
\* workers between dequeuing a task and finishing it.
C25_LatchConverse ==
    /\ SchedMutexFree =>
          ((~queueActive /\ queue = <<>> /\ working = 0) => completed)
    /\ working = Cardinality(InTask)

\* the front-end was destroyed after a cancel that dropped a task, a task
\* ran to its end, and completion is latched
C25_Witness ==
    /\ ~queueAlive
    /\ completed
    /\ \E t, u \in Tasks : loc[t] = "finished" /\ loc[u] = "cleared"

\* C26: once completed is latched, a started worker, be it parked in its
\* inner WAIT loop or between tasks, eventually has currentState = TERMINATE,
\* whether or not wait() or requestState is called on it afterwards.
C26_CompletionTerminatesWorker ==
    \A w \in Workers :
        (completed /\ pc[w] # "unstarted") ~> (currentState[w] = "TERMINATE" \/ aborted)

\* C27: a task that is pending while a started worker whose requestedState
\* is WORK is parked in startScheduledWork is eventually dequeued, whatever
\* addTask's notify_one, requestState on the other workers and close() do.
C27_PendingTaskDequeued ==
    \A t \in Tasks, w \in Workers :
        (loc[t] = "queued" /\ pc[w] = "schedWaiting" /\ requestedState[w] = "WORK")
          ~> (loc[t] # "queued" \/ aborted)

\* C28: while a worker executes a task getState() returns WORK, also after a
\* request from WAIT to WORK woke the worker from its inner WAIT loop.
C28_StateWorkWhileExecuting ==
    \A w \in Workers :
        pc[w] \in {"launch", "running"} => currentState[w] = "WORK"

\* C29: a Task that is disposed of without having been launched (dropped,
\* refused by a closed queue, cleared by cancel, or overwritten by a move
\* assignment) has Cancelled on its future.
C29_DisposalCancels ==
    \A t \in Tasks :
        (loc[t] \in {"dropped", "rejected", "cleared", "overwritten"} /\ invoked[t] = 0) =>
           outcome[t] = "Cancelled"

C31_DequeuedOnce ==
    /\ [](\A t \in Tasks :
            /\ Cardinality({w \in Workers : task[w] = t}) <= 1
            /\ Cardinality({i \in 1..Len(queue) : queue[i] = t}) <= 1
            /\ (t \in Elems(queue)) = (loc[t] = "queued")
            /\ (\E w \in Workers : task[w] = t) = (loc[t] = "worker")
            /\ invoked[t] <= 1)
    /\ [][\A t \in Tasks :
            (loc[t] = "queued" /\ loc'[t] # "queued") =>
               \/ /\ loc'[t] = "worker"
                  /\ t = Head(queue)
                  /\ queue' = Tail(queue)
                  /\ Cardinality({w \in Workers : task[w] # t /\ task'[w] = t}) = 1
                  /\ invoked[t] = 0
               \/ /\ loc'[t] = "cleared"
                  /\ queue' = <<>>
                  /\ invoked'[t] = 0]_vars
    /\ [][\A t \in Tasks :
            (loc[t] \in {"worker", "finished", "cleared"}) => loc'[t] # "queued"]_vars

\* two workers pulled from the same queue and each runs a task of its own
C31_Witness ==
    \E w, x \in Workers :
        /\ w # x
        /\ pc[w] = "running"
        /\ pc[x] = "running"
        /\ task[w] # task[x]
        /\ {task[w], task[x]} \subseteq Elems(admitted)

=============================================================================
